---- MODULE Spec2Model ----
(***************************************************************************)
(* Model of sanity.py: the configuration-driven API sanity runner.         *)
(* main() loads config.yaml and env.yaml, runs fetch_api_data on every     *)
(* declared step in order against the shared, mutable env_vars mapping,    *)
(* collects one result per step and writes the report.                     *)
(*                                                                         *)
(* Python strings are TLA+ strings; every string operation of the code     *)
(* (str.replace, str.split, str.upper, str()) is computed character by     *)
(* character.  A Python value of an environment variable, of a JSON field  *)
(* or of a set_env path is a tagged record (StrV, IntV, DictV).            *)
(***************************************************************************)
EXTENDS Integers, Sequences, FiniteSets, TLC

VARIABLES
    configFile,   \* config.yaml on disk: [exists, apis]
    envFile,      \* env.yaml on disk: the mapping it holds (empty: missing)
    net,          \* what the HTTP endpoints of this run may answer
    env_vars,     \* main's env_vars, mutated in place by fetch_api_data
    results,      \* main's results list
    idx,          \* position of main's for loop in api_config["apis"]
    pc,           \* where main is
    report,       \* the rows of the report file written, in order
    calls         \* one record per executed fetch_api_data call

vars == <<configFile, envFile, net, env_vars, results, idx, pc, report, calls>>

\* The largest number of steps a configuration declares.
MaxSteps == 2

-----------------------------------------------------------------------------
(* Python values *)

StrV(s) == [t |-> "str", s |-> s, n |-> 0]
IntV(n) == [t |-> "int", s |-> "", n |-> n]
\* the nested JSON object {"lat": n}
DictV(n) == [t |-> "dict", s |-> "lat", n |-> n]

Digit(d) == SubSeq("0123456789", d + 1, d + 1)

RECURSIVE NatStr(_)
NatStr(n) == IF n < 10 THEN Digit(n) ELSE NatStr(n \div 10) \o Digit(n % 10)

\* str(v)
PyStr(v) ==
    CASE v.t = "str" -> v.s
      [] v.t = "int" -> IF v.n < 0 THEN "-" \o NatStr(-v.n) ELSE NatStr(v.n)
      [] v.t = "dict" -> "{'" \o v.s \o "': " \o NatStr(v.n) \o "}"

\* d.get(key, '')
DictGet(d, key) == IF key \in DOMAIN d THEN d[key] ELSE StrV("")

\* d[key] = val
DictSet(d, key, val) == (key :> val) @@ d

EmptyDict == [k \in {} |-> StrV("")]

\* str.replace(old, new): the occurrences of old, left to right, not overlapping
RECURSIVE Replace(_, _, _)
Replace(s, old, new) ==
    IF Len(s) < Len(old) THEN s
    ELSE IF SubSeq(s, 1, Len(old)) = old
         THEN new \o Replace(SubSeq(s, Len(old) + 1, Len(s)), old, new)
         ELSE SubSeq(s, 1, 1) \o Replace(SubSeq(s, 2, Len(s)), old, new)

\* str.split(sep), sep one character
RECURSIVE SplitFrom(_, _, _)
SplitFrom(s, sep, cur) ==
    IF s = "" THEN <<cur>>
    ELSE IF SubSeq(s, 1, 1) = sep
         THEN <<cur>> \o SplitFrom(SubSeq(s, 2, Len(s)), sep, "")
         ELSE SplitFrom(SubSeq(s, 2, Len(s)), sep, cur \o SubSeq(s, 1, 1))

Split(s, sep) == SplitFrom(s, sep, "")

LowerAlpha == "abcdefghijklmnopqrstuvwxyz"
UpperAlpha == "ABCDEFGHIJKLMNOPQRSTUVWXYZ"

UpperChar(c) ==
    IF \E j \in 1..26 : SubSeq(LowerAlpha, j, j) = c
    THEN LET j == CHOOSE j \in 1..26 : SubSeq(LowerAlpha, j, j) = c
         IN  SubSeq(UpperAlpha, j, j)
    ELSE c

\* str.upper()
RECURSIVE Upper(_)
Upper(s) == IF s = "" THEN "" ELSE UpperChar(SubSeq(s, 1, 1)) \o Upper(SubSeq(s, 2, Len(s)))

-----------------------------------------------------------------------------
(* fetch_api_data *)

\* str(v).replace("{{lat}}", str(env.get("lat", ""))).replace("{{lon}}", ...)
SubstituteMutSwapped(v, env) ==
    Replace(Replace(v, "{{lon}}", PyStr(DictGet(env, "lon"))),
            "{{lat}}", PyStr(DictGet(env, "lat")))

SubstituteMutOnlyLat(v, env) ==
    Replace(v, "{{lat}}", PyStr(DictGet(env, "lat")))

Substitute(v, env) ==
    Replace(Replace(v, "{{lat}}", PyStr(DictGet(env, "lat"))),
            "{{lon}}", PyStr(DictGet(env, "lon")))

\* api.get('params', {}), then the dict comprehension over params.items()
ResolveParams(api, env) ==
    LET params == IF "params" \in api.keys THEN api.params ELSE EmptyDict
    IN  [k \in DOMAIN params |-> Substitute(params[k], env)]

\* api['method'].upper() == 'POST' and 'payload_file' in api
WantsPayloadMutAnyPost(api) == Upper(api.method) = "POST"

WantsPayload(api) == Upper(api.method) = "POST" /\ "payload_file" \in api.keys

\* keys = value.split('.'); response_json.get(keys[-1], '') if keys else ''
ExtractMutFirstSegment(response_json, value) ==
    LET keys == Split(value, ".")
    IN  IF Len(keys) > 0 THEN DictGet(response_json, keys[1]) ELSE StrV("")

Extract(response_json, value) ==
    LET keys == Split(value, ".")
    IN  IF Len(keys) > 0 THEN DictGet(response_json, keys[Len(keys)]) ELSE StrV("")

\* "PASS" if response.status_code == 200 else "FAIL"
ClassifyMutBelow400(status_code) == IF status_code < 400 THEN "PASS" ELSE "FAIL"

Classify(status_code) == IF status_code = 200 THEN "PASS" ELSE "FAIL"

\* env_vars[key] = ...: the store is the caller's dict, written in place
StoreMutKeepFirst(env, key, val) == IF key \in DOMAIN env THEN env ELSE DictSet(env, key, val)

Store(env, key, val) == DictSet(env, key, val)

\* The for loop over api['set_env'].items(), from rule r on.  An exception
\* leaves the rules before it applied: [env, err, writes].
RECURSIVE SetEnvLoop(_, _, _, _, _)
SetEnvLoop(rules, r, body, env, writes) ==
    IF r > Len(rules) THEN [env |-> env, err |-> "", writes |-> writes]
    ELSE LET key == rules[r].target
             value == rules[r].path
         IN  IF value.t # "str"
             THEN [env |-> env, writes |-> writes,
                   err |-> "'" \o value.t \o "' object has no attribute 'split'"]
             ELSE IF body.kind # "object"
             THEN [env |-> env, writes |-> writes,
                   err |-> "'" \o body.kind \o "' object has no attribute 'get'"]
             ELSE LET val == Extract(body.obj, value.s)
                  IN  SetEnvLoop(rules, r + 1, body, Store(env, key, val),
                                 Append(writes, [target |-> key, val |-> val]))

\* "if 'set_env' in api": response.json() is already parsed; the loop runs
\* on the caller's env_vars.
ApplySetEnvMutRollback(rules, body, env) ==
    LET a == SetEnvLoop(rules, 1, body, env, <<>>)
    IN  IF a.err # "" THEN [env |-> env, err |-> a.err, writes |-> <<>>] ELSE a

ApplySetEnv(rules, body, env) == SetEnvLoop(rules, 1, body, env, <<>>)

NoResponse == [raises |-> FALSE, error |-> "", status_code |-> 0,
               body |-> [kind |-> "none", obj |-> EmptyDict]]

NoResult == [name |-> "", Status |-> "", Code |-> StrV(""), Response |-> [error |-> "", body |-> NoResponse.body]]

NoParams == [k \in {} |-> ""]

\* The except clause: the ERROR result, or the KeyError of api['name'] that
\* leaves fetch_api_data.
Except(api, env, msg, call) ==
    IF "name" \in api.keys
    THEN [raised |-> FALSE, env |-> env, call |-> call,
          result |-> [name |-> api.name, Status |-> "ERROR", Code |-> StrV("N/A"),
                      Response |-> [error |-> msg, body |-> NoResponse.body]]]
    ELSE [raised |-> TRUE, env |-> env, call |-> call, result |-> NoResult]

\* str(e) of the TypeError os.path.join raises for a component that is not
\* a string
JoinError(v) ==
    "join() argument must be str, bytes, or os.PathLike object, not '" \o v.t \o "'"

\* fetch_api_data(api, env_vars) when the HTTP call answers out and the
\* payload file is readable or not (fileOk).
FetchApiData(api, env, out, fileOk) ==
    LET call0 == [resolved |-> FALSE, params |-> NoParams, loader |-> FALSE,
                  sent |-> FALSE, payload |-> "None", response |-> NoResponse,
                  writes |-> <<>>]
    IN
    IF "url" \notin api.keys THEN Except(api, env, "'url'", call0)
    ELSE
    LET params == ResolveParams(api, env)
        call1 == [call0 EXCEPT !.resolved = TRUE, !.params = params]
    IN
    IF "method" \notin api.keys THEN Except(api, env, "'method'", call1)
    ELSE IF WantsPayload(api) /\ "payload_dir" \notin DOMAIN env
    THEN Except(api, env, "'payload_dir'", call1)
    ELSE IF WantsPayload(api) /\ env["payload_dir"].t # "str"
    THEN Except(api, env, JoinError(env["payload_dir"]), call1)
    ELSE
    LET payload == IF WantsPayload(api)
                   THEN (IF fileOk THEN "loaded" ELSE "empty")
                   ELSE "None"
        call2 == [call1 EXCEPT !.loader = WantsPayload(api), !.sent = TRUE,
                               !.payload = payload, !.response = out]
    IN
    IF out.raises THEN Except(api, env, out.error, call2)
    ELSE IF "set_env" \in api.keys /\ out.body.kind = "notjson"
    THEN Except(api, env, "Expecting value: line 1 column 1 (char 0)", call2)
    ELSE
    LET upd == IF "set_env" \in api.keys
               THEN ApplySetEnv(api.set_env, out.body, env)
               ELSE [env |-> env, err |-> "", writes |-> <<>>]
        call3 == [call2 EXCEPT !.writes = upd.writes]
    IN
    IF upd.err # "" THEN Except(api, upd.env, upd.err, call3)
    ELSE IF "name" \notin api.keys THEN Except(api, upd.env, "'name'", call3)
    ELSE IF out.body.kind = "notjson"
    THEN Except(api, upd.env, "Expecting value: line 1 column 1 (char 0)", call3)
    ELSE [raised |-> FALSE, env |-> upd.env, call |-> call3,
          result |-> [name |-> api.name,
                      Status |-> Classify(out.status_code),
                      Code |-> IntV(out.status_code),
                      Response |-> [error |-> "", body |-> out.body]]]

-----------------------------------------------------------------------------
(* The configurations, environment files and endpoint answers of the runs *)

\* A step of config.yaml: keys are the keys the step's mapping holds.
Step(keys, name, method, params, set_env) ==
    [keys |-> keys, name |-> name, url |-> "http://api/x", method |-> method,
     params |-> params, payload_file |-> "body.json", set_env |-> set_env]

Rule(target, path) == [target |-> target, path |-> path]

Object(obj) == [kind |-> "object", obj |-> obj]
NotJson == [kind |-> "notjson", obj |-> EmptyDict]
JsonList == [kind |-> "list", obj |-> EmptyDict]

Answer(status_code, body) ==
    [raises |-> FALSE, error |-> "", status_code |-> status_code, body |-> body]
Refused == [raises |-> TRUE, error |-> "Connection refused", status_code |-> 0,
            body |-> NoResponse.body]

ReportKeys == ("result_dir" :> StrV("results")) @@ ("HTML_TEMPLATE_FILE" :> StrV("t.html"))

\* Well-formed and malformed steps, GET and POST, with and without payload.
GeneralSteps ==
    { Step({"name", "url", "method", "params"}, "A", "GET",
           ("q" :> "{{lat}},{{lon}}"), <<>>),
      Step({"url", "method"}, "", "GET", NoParams, <<>>),
      Step({"name", "method"}, "B", "GET", NoParams, <<>>),
      Step({"name", "url"}, "C", "", NoParams, <<>>),
      Step({"name", "url", "method", "payload_file"}, "P", "post", NoParams, <<>>),
      Step({"name", "url", "method"}, "Q", "POST", NoParams, <<>>),
      Step({"name", "url", "method", "set_env"}, "D", "GET", NoParams,
           <<Rule("lat", StrV("coord.lat")), Rule("lon", IntV(5))>>) }

GeneralEnvs ==
    { ("lat" :> StrV("12")) @@ ("lon" :> IntV(77)) @@ ("payload_dir" :> StrV("payloads"))
          @@ ReportKeys,
      ("lat" :> StrV("12")) @@ ReportKeys,
      ("payload_dir" :> IntV(5)) @@ ReportKeys,
      EmptyDict }

GeneralNet ==
    { Refused,
      Answer(200, Object(("lat" :> StrV("10")))),
      Answer(200, NotJson),
      Answer(200, JsonList),
      Answer(201, Object(EmptyDict)),
      Answer(404, Object(EmptyDict)),
      Answer(404, NotJson) }

\* Steps whose params hold placeholders, against stores whose lat and lon
\* are absent, numbers, plain text or text that itself holds a placeholder.
SubstSteps ==
    { Step({"name", "url", "method", "params"}, "A", "GET", ("p" :> "{{lat}}"), <<>>),
      Step({"name", "url", "method", "params"}, "B", "GET", ("p" :> "{{lon}}"), <<>>),
      Step({"name", "url", "method", "params"}, "C", "GET",
           ("p" :> "{{lat}},{{lon}}") @@ ("q" :> "{{foo}}/{{lat}}"), <<>>),
      Step({"name", "url", "method", "params"}, "D", "GET",
           ("p" :> "{{l{{lat}}on}}{{lat}}{{lat}}"), <<>>),
      Step({"name", "url", "method", "params", "set_env"}, "E", "GET",
           ("p" :> "x{{lon}}{{lat}}"), <<Rule("lat", StrV("v")), Rule("foo", StrV("v"))>>) }

SubstEnvs ==
    { ("lat" :> StrV("12")) @@ ("lon" :> IntV(77)) @@ ("foo" :> StrV("F")) @@ ReportKeys,
      ("lat" :> StrV("{{lon}}")) @@ ("lon" :> StrV("8")) @@ ReportKeys,
      ("lat" :> StrV("{{lat}}")) @@ ("lon" :> StrV("{{lat}}")) @@ ReportKeys,
      ("lon" :> StrV("{{lon}}")) @@ ReportKeys,
      ("lat" :> StrV("")) @@ ReportKeys,
      ReportKeys }

SubstNet ==
    { Refused,
      Answer(200, Object(("v" :> StrV("{{lon}}")))) }

\* Steps that write the store through set_env and steps that read it.
ChainSteps ==
    { Step({"name", "url", "method", "params", "set_env"}, "W1", "GET",
           ("p" :> "{{lat}}"), <<Rule("lat", StrV("coord.lat"))>>),
      Step({"name", "url", "method", "set_env"}, "W2", "GET", NoParams,
           <<Rule("lat", StrV("lat")), Rule("lon", StrV("x.y.lon"))>>),
      Step({"name", "url", "method", "set_env"}, "W3", "GET", NoParams,
           <<Rule("lon", StrV("main.coord")), Rule("lat", IntV(5))>>),
      Step({"url", "method", "set_env"}, "", "GET", NoParams,
           <<Rule("lat", StrV("lat"))>>),
      Step({"name", "url", "method", "set_env"}, "W0", "GET", NoParams, <<>>),
      Step({"name", "url", "method", "params"}, "R", "GET",
           ("p" :> "{{lat}},{{lon}}"), <<>>) }

ChainEnvs ==
    { ("lat" :> StrV("12")) @@ ("lon" :> StrV("77")) @@ ReportKeys,
      ReportKeys }

ChainNet ==
    { Refused,
      Answer(200, Object(("coord" :> DictV(10)))),
      Answer(200, Object(("lat" :> StrV("48")) @@ ("lon" :> IntV(2)))),
      Answer(404, Object(("lat" :> StrV("{{lon}}")))),
      Answer(200, JsonList),
      Answer(404, JsonList),
      Answer(200, NotJson) }

SeqsUpTo(S, n) == UNION { [1..k -> S] : k \in 0..n }

InitWith(steps, envs, answers) ==
    /\ configFile \in {[exists |-> FALSE, apis |-> <<>>]}
                       \cup {[exists |-> TRUE, apis |-> a] : a \in SeqsUpTo(steps, MaxSteps)}
    /\ envFile \in envs
    /\ net = answers
    /\ env_vars = EmptyDict
    /\ results = <<>>
    /\ idx = 0
    /\ pc = "start"
    /\ report = <<>>
    /\ calls = <<>>

Init ==
    \/ InitWith(GeneralSteps, GeneralEnvs, GeneralNet)
    \/ InitWith(SubstSteps, SubstEnvs, SubstNet)
    \/ InitWith(ChainSteps, ChainEnvs, ChainNet)

-----------------------------------------------------------------------------
(* main *)

\* load_yaml of both files and the test "not api_config or not env_vars"
LoadConfig ==
    /\ pc = "start"
    /\ IF ~configFile.exists \/ DOMAIN envFile = {}
       THEN /\ pc' = "exit"
            /\ UNCHANGED <<env_vars, idx>>
       ELSE /\ pc' = "loop"
            /\ env_vars' = envFile
            /\ idx' = 1
    /\ UNCHANGED <<configFile, envFile, net, results, report, calls>>

\* One iteration of "for api in api_config.get('apis', [])": the call of
\* fetch_api_data and results.append; an exception leaving fetch_api_data
\* is caught by main's except clause, which ends the run.
RunStep ==
    /\ pc = "loop"
    /\ idx <= Len(configFile.apis)
    /\ \E out \in net, fileOk \in BOOLEAN :
         \E f \in {FetchApiData(configFile.apis[idx], env_vars, out, fileOk)} :
         LET call == [resolved |-> f.call.resolved, params |-> f.call.params,
                      loader |-> f.call.loader, sent |-> f.call.sent,
                      payload |-> f.call.payload, response |-> f.call.response,
                      writes |-> f.call.writes, envBefore |-> env_vars,
                      envAfter |-> f.env, raised |-> f.raised]
         IN  /\ env_vars' = f.env
             /\ calls' = Append(calls, call)
             /\ IF f.raised
                THEN /\ pc' = "error"
                     /\ UNCHANGED <<results, idx>>
                ELSE /\ results' = Append(results, f.result)
                     /\ idx' = idx + 1
                     /\ pc' = pc
    /\ UNCHANGED <<configFile, envFile, net, report>>

\* After the loop: generate_report, the template read through
\* env_vars["result_dir"] and env_vars["HTML_TEMPLATE_FILE"], the report
\* write and send_email (which catches its own exceptions).
WriteReport ==
    /\ pc = "loop"
    /\ idx > Len(configFile.apis)
    /\ \/ /\ {"result_dir", "HTML_TEMPLATE_FILE"} \subseteq DOMAIN env_vars
          /\ env_vars["result_dir"].t = "str"
          /\ env_vars["HTML_TEMPLATE_FILE"].t = "str"
          /\ report' = [k \in 1..Len(results) |->
                          [name |-> results[k].name, Status |-> results[k].Status]]
          /\ pc' = "done"
       \/ /\ pc' = "error"
          /\ UNCHANGED report
    /\ UNCHANGED <<configFile, envFile, net, env_vars, results, idx, calls>>

Next == LoadConfig \/ RunStep \/ WriteReport

Spec == Init /\ [][Next]_vars

-----------------------------------------------------------------------------
(* What the properties below speak of *)

Apis == configFile.apis
Api(k) == configFile.apis[k]
Called == 1..Len(calls)

\* The HTTP call of step k was made and returned a response.
Answered(k) == calls[k].sent /\ ~calls[k].response.raises
\* The HTTP call of step k was made and raised.
Refusedk(k) == calls[k].sent /\ calls[k].response.raises
\* fetch_api_data returned a Result for step k.
HasResult(k) == k <= Len(results)

RunOver == pc \in {"done", "error"}
AbortedInLoop == pc = "error" /\ idx <= Len(Apis)

IsPost(api) == "method" \in api.keys /\ api.method \in {"POST", "post"}

Rules(k) == IF "set_env" \in Api(k).keys THEN Api(k).set_env ELSE <<>>

\* The first rule whose path is not a string; Len + 1 when there is none.
FirstBad(rules) ==
    IF \E r \in 1..Len(rules) : rules[r].path.t # "str"
    THEN CHOOSE r \in 1..Len(rules) :
            /\ rules[r].path.t # "str"
            /\ \A q \in 1..(r - 1) : rules[q].path.t = "str"
    ELSE Len(rules) + 1

\* The text after the last "." of a path (the whole path when it has none).
LastSegment(path) ==
    LET dots == {j \in 1..Len(path) : SubSeq(path, j, j) = "."}
        last == IF dots = {} THEN 0 ELSE CHOOSE j \in dots : \A q \in dots : q <= j
    IN  SubSeq(path, last + 1, Len(path))

\* The value of a top-level key of a JSON object body, "" when it has none.
TopLevel(body, key) == IF key \in DOMAIN body.obj THEN body.obj[key] ELSE StrV("")

\* env with the first n rules applied to an object body.
Overlay(env, rules, n, body) ==
    [key \in DOMAIN env \cup {rules[r].target : r \in 1..n} |->
        IF \E r \in 1..n : rules[r].target = key
        THEN LET r == CHOOSE r \in 1..n :
                        /\ rules[r].target = key
                        /\ \A q \in 1..n : rules[q].target = key => q <= r
             IN  TopLevel(body, LastSegment(rules[r].path.s))
        ELSE env[key]]

\* The set_env loop of step k raises.
ExtractionRaises(k) ==
    \/ FirstBad(Rules(k)) <= Len(Rules(k))
    \/ Len(Rules(k)) > 0 /\ calls[k].response.body.kind # "object"

IsLetter(c) == \E j \in 1..26 : SubSeq(LowerAlpha, j, j) = c

RECURSIVE LetterRun(_, _)
LetterRun(s, from) ==
    IF from <= Len(s) /\ IsLetter(SubSeq(s, from, from))
    THEN 1 + LetterRun(s, from + 1)
    ELSE 0

\* The name of the placeholder {{name}} that s starts with, "" when it
\* starts with none.
HeadPlaceholder(s) ==
    IF Len(s) >= 5 /\ SubSeq(s, 1, 2) = "{{"
    THEN LET n == LetterRun(s, 3)
         IN  IF n > 0 /\ Len(s) >= n + 4 /\ SubSeq(s, n + 3, n + 4) = "}}"
             THEN SubSeq(s, 3, n + 2)
             ELSE ""
    ELSE ""

\* s with each placeholder whose name is in DOMAIN repl replaced by
\* repl[name], in one pass: inserted text is not looked at again.
RECURSIVE Expand(_, _)
Expand(s, repl) ==
    IF s = "" THEN ""
    ELSE LET nm == HeadPlaceholder(s)
         IN  IF nm # "" /\ nm \in DOMAIN repl
             THEN repl[nm] \o Expand(SubSeq(s, Len(nm) + 5, Len(s)), repl)
             ELSE SubSeq(s, 1, 1) \o Expand(SubSeq(s, 2, Len(s)), repl)

PlaceholderNames == {"lat", "lon", "foo"}

Template(k) == IF "params" \in Api(k).keys THEN Api(k).params ELSE NoParams

StoreText(env, name) == PyStr(DictGet(env, name))

\* The steps before j, among K, that wrote var; the value var has when step
\* j starts if only the writes of the steps in K count.
Writers(j, var, K) ==
    {k \in K : k < j /\ \E w \in 1..Len(calls[k].writes) : calls[k].writes[w].target = var}

ValueAt(j, var, K) ==
    IF Writers(j, var, K) # {}
    THEN LET k == CHOOSE k \in Writers(j, var, K) : \A q \in Writers(j, var, K) : q <= k
             ws == {w \in 1..Len(calls[k].writes) : calls[k].writes[w].target = var}
             w == CHOOSE w \in ws : \A q \in ws : q <= w
         IN  calls[k].writes[w].val
    ELSE DictGet(envFile, var)

ChainedEnv(j, K) == ("lat" :> ValueAt(j, "lat", K)) @@ ("lon" :> ValueAt(j, "lon", K))

NotErrored == {k \in Called : HasResult(k) /\ results[k].Status # "ERROR"}

-----------------------------------------------------------------------------
(* Properties *)

\* C1: when both configuration files load, the run ends with exactly one
\* Result per declared step, in declaration order, the i-th Result carrying
\* the name of the i-th step, whatever the steps and the HTTP answers are.
C1_OneResultPerStep ==
    RunOver =>
        /\ Len(results) = Len(Apis)
        /\ \A i \in 1..Len(results) : results[i].name = Api(i).name

\* C2: a step whose HTTP call raises yields the Result ERROR / "N/A" / the
\* error description, leaves the Environment Store as it was before the
\* step, and the run goes on with the following steps.
C2_RaisingCallIsRecorded ==
    \A k \in Called :
        Refusedk(k) =>
            /\ HasResult(k)
            /\ results[k].Status = "ERROR"
            /\ results[k].Code = StrV("N/A")
            /\ results[k].Response.error = calls[k].response.error
            /\ calls[k].envAfter = calls[k].envBefore
            /\ ~AbortedInLoop

\* C3 as stated: for every step whose HTTP call returns a response, Status
\* is PASS iff the status code is 200 and FAIL otherwise, and Response Code
\* is the returned status code, whatever the body holds.
C3_StatusFromCodeAlone ==
    \A k \in Called :
        (Answered(k) /\ HasResult(k)) =>
            /\ results[k].Status =
                   (IF calls[k].response.status_code = 200 THEN "PASS" ELSE "FAIL")
            /\ results[k].Code = IntV(calls[k].response.status_code)

\* C3 as amended: a Result returned for a step whose HTTP call returned a
\* response is ERROR with Response Code "N/A" exactly when the body is not
\* JSON or the set_env loop raises; otherwise it is PASS iff the status code
\* is 200, FAIL if not, with the returned status code as Response Code.
C3_StatusOfAnsweredStep ==
    \A k \in Called :
        (Answered(k) /\ HasResult(k)) =>
            IF calls[k].response.body.kind = "notjson" \/ ExtractionRaises(k)
            THEN /\ results[k].Status = "ERROR"
                 /\ results[k].Code = StrV("N/A")
            ELSE /\ results[k].Status =
                        (IF calls[k].response.status_code = 200 THEN "PASS" ELSE "FAIL")
                 /\ results[k].Code = IntV(calls[k].response.status_code)

C3_Witness ==
    \E k \in Called :
        /\ Answered(k) /\ HasResult(k)
        /\ calls[k].response.status_code = 404
        /\ results[k].Status = "FAIL"
        /\ results[k].Code = IntV(404)

\* C4 as stated: every placeholder {{name}}, for any name, is replaced by
\* the store's value for that name as a string, "" when the name is absent.
C4_EveryPlaceholderReplaced ==
    \A k \in Called :
        calls[k].resolved =>
            \A p \in DOMAIN Template(k) :
                calls[k].params[p] =
                    Expand(Template(k)[p],
                           [nm \in PlaceholderNames |-> StoreText(calls[k].envBefore, nm)])

\* C4 as amended: only {{lat}} and {{lon}} are replaced: first every {{lat}}
\* by the store's lat as a string, then every {{lon}} of the text so obtained
\* by the store's lon as a string, "" standing for an absent variable; any
\* other placeholder stays in the param as it is; nothing is raised.
C4_LatThenLonReplaced ==
    \A k \in Called :
        /\ ("url" \in Api(k).keys) => calls[k].resolved
        /\ calls[k].resolved =>
             /\ DOMAIN calls[k].params = DOMAIN Template(k)
             /\ \A p \in DOMAIN Template(k) :
                  calls[k].params[p] =
                      Expand(Expand(Template(k)[p],
                                    ("lat" :> StoreText(calls[k].envBefore, "lat"))),
                             ("lon" :> StoreText(calls[k].envBefore, "lon")))

C4_Witness ==
    \E k \in Called :
        /\ calls[k].resolved
        /\ "lat" \notin DOMAIN calls[k].envBefore
        /\ "q" \in DOMAIN Template(k)
        /\ Template(k)["q"] = "{{foo}}/{{lat}}"
        /\ calls[k].params["q"] = "{{foo}}/"

\* C5 as stated: substitution is not recursive: the text put in place of a
\* placeholder is never itself scanned for placeholders.
C5_InsertedTextNotScanned ==
    \A k \in Called :
        calls[k].resolved =>
            \A p \in DOMAIN Template(k) :
                calls[k].params[p] =
                    Expand(Template(k)[p],
                           [nm \in {"lat", "lon"} |-> StoreText(calls[k].envBefore, nm)])

\* C5 as amended: the text put in place of {{lon}} is never scanned again and
\* the text put in place of {{lat}} is never scanned for {{lat}}, but it is
\* scanned for {{lon}}: with lat = "{{lon}}" the param "{{lat}}" resolves to
\* the store's lon.
C5_LatTextScannedForLon ==
    \A k \in Called :
        calls[k].resolved =>
            \A p \in DOMAIN Template(k) :
                LET lat == StoreText(calls[k].envBefore, "lat")
                    lon == StoreText(calls[k].envBefore, "lon")
                IN  /\ Template(k)[p] = "{{lon}}" => calls[k].params[p] = lon
                    /\ (Template(k)[p] = "{{lat}}" /\ lat = "{{lat}}")
                           => calls[k].params[p] = "{{lat}}"
                    /\ (Template(k)[p] = "{{lat}}" /\ lat = "{{lon}}")
                           => calls[k].params[p] = lon

C5_Witness ==
    \E k \in Called :
        /\ calls[k].resolved
        /\ "p" \in DOMAIN Template(k)
        /\ Template(k)["p"] = "{{lat}}"
        /\ StoreText(calls[k].envBefore, "lat") = "{{lon}}"
        /\ calls[k].params["p"] = "8"

\* C6 as stated: for a step with set_env whose call returned a response,
\* each rule (target, path) writes into env[target] the value of the body's
\* top-level key named by the last segment of path, and "" when that key is
\* not a top-level key or when the parsed body is not a JSON object.
C6_EveryRuleWrites ==
    \A k \in Called :
        (Answered(k) /\ calls[k].response.body.kind # "notjson") =>
            \A r \in 1..Len(Rules(k)) :
                Rules(k)[r].path.t = "str" =>
                    /\ Rules(k)[r].target \in DOMAIN calls[k].envAfter
                    /\ calls[k].envAfter[Rules(k)[r].target] =
                           TopLevel(calls[k].response.body, LastSegment(Rules(k)[r].path.s))

\* C6 as amended: when the body is a JSON object, each rule before the first
\* rule whose path is not a string writes into env[target] the value of the
\* body's top-level key named by the last segment of path, "" when that key
\* is not a top-level key (even if it exists nested), and nothing else of the
\* store changes.  When the body is not a JSON object no rule writes anything
\* and the store is unchanged; if the body is not JSON at all, or set_env has
\* a rule, the step raises: a step with a name returns the ERROR Result with
\* Code "N/A" and the exception's text, a step without a name returns no
\* Result and the run ends.  With an empty set_env and a JSON body that is
\* not an object nothing raises: a step with a name returns PASS for code
\* 200 and FAIL otherwise, carrying the code.
C6_RulesWriteTopLevelKey ==
    \A k \in Called :
        (Answered(k) /\ "set_env" \in Api(k).keys) =>
            IF calls[k].response.body.kind = "object"
            THEN LET n == FirstBad(Rules(k)) - 1
                 IN  /\ \A r \in 1..n :
                           /\ Rules(k)[r].target \in DOMAIN calls[k].envAfter
                           /\ calls[k].envAfter[Rules(k)[r].target] =
                                  TopLevel(calls[k].response.body,
                                           LastSegment(Rules(k)[r].path.s))
                     /\ \A key \in DOMAIN calls[k].envAfter :
                           (\A r \in 1..n : Rules(k)[r].target # key) =>
                               /\ key \in DOMAIN calls[k].envBefore
                               /\ calls[k].envAfter[key] = calls[k].envBefore[key]
                     /\ DOMAIN calls[k].envBefore \subseteq DOMAIN calls[k].envAfter
            ELSE /\ calls[k].envAfter = calls[k].envBefore
                 /\ calls[k].writes = <<>>
                 /\ "name" \notin Api(k).keys => (calls[k].raised /\ ~HasResult(k))
                 /\ "name" \in Api(k).keys =>
                       /\ ~calls[k].raised
                       /\ HasResult(k)
                       /\ results[k].name = Api(k).name
                       /\ IF calls[k].response.body.kind = "notjson"
                          THEN /\ results[k].Status = "ERROR"
                               /\ results[k].Code = StrV("N/A")
                               /\ results[k].Response.error =
                                      "Expecting value: line 1 column 1 (char 0)"
                          ELSE IF Len(Rules(k)) > 0
                          THEN /\ results[k].Status = "ERROR"
                               /\ results[k].Code = StrV("N/A")
                               /\ results[k].Response.error =
                                      (IF Rules(k)[1].path.t = "str"
                                       THEN "'list' object has no attribute 'get'"
                                       ELSE "'" \o Rules(k)[1].path.t
                                                \o "' object has no attribute 'split'")
                          ELSE /\ results[k].Status =
                                      (IF calls[k].response.status_code = 200
                                       THEN "PASS" ELSE "FAIL")
                               /\ results[k].Code = IntV(calls[k].response.status_code)
                               /\ results[k].Response.error = ""

\* The cases of C6 with a body that is not a JSON object are reached: a rule
\* on a JSON list with and without a name, and an empty set_env on a JSON
\* list with both outcomes.
C6_ListBodyRuleReached ==
    \E k \in Called :
        /\ Answered(k) /\ calls[k].response.body.kind = "list"
        /\ Len(Rules(k)) > 0 /\ "name" \in Api(k).keys
        /\ HasResult(k) /\ results[k].Status = "ERROR"

C6_ListBodyNamelessReached ==
    \E k \in Called :
        /\ Answered(k) /\ calls[k].response.body.kind = "list"
        /\ Len(Rules(k)) > 0 /\ "name" \notin Api(k).keys
        /\ calls[k].raised

C6_ListBodyNoRulePassReached ==
    \E k \in Called :
        /\ Answered(k) /\ calls[k].response.body.kind = "list"
        /\ "set_env" \in Api(k).keys /\ Len(Rules(k)) = 0
        /\ HasResult(k) /\ results[k].Status = "PASS"

C6_ListBodyNoRuleFailReached ==
    \E k \in Called :
        /\ Answered(k) /\ calls[k].response.body.kind = "list"
        /\ "set_env" \in Api(k).keys /\ Len(Rules(k)) = 0
        /\ HasResult(k) /\ results[k].Status = "FAIL"

C6_Witness ==
    \E k \in Called :
        /\ Answered(k)
        /\ "coord" \in DOMAIN calls[k].response.body.obj
        /\ Len(Rules(k)) > 0
        /\ Rules(k)[1] = Rule("lat", StrV("coord.lat"))
        /\ "lat" \in DOMAIN calls[k].envBefore
        /\ calls[k].envBefore["lat"] = StrV("12")
        /\ calls[k].envAfter["lat"] = StrV("")

\* C7 as stated: for a POST step, if payload_file is missing from the step
\* or payload_dir is missing from the store, the request is issued with no
\* body; the Payload Loader runs only for POST with payload_file.
C7_MissingKeyMeansNoBody ==
    \A k \in Called :
        /\ calls[k].loader => (IsPost(Api(k)) /\ "payload_file" \in Api(k).keys)
        /\ ( /\ IsPost(Api(k)) /\ "url" \in Api(k).keys
             /\ \/ "payload_file" \notin Api(k).keys
                \/ "payload_dir" \notin DOMAIN calls[k].envBefore )
           => (calls[k].sent /\ calls[k].payload = "None")

\* C7 as amended: for a POST step without payload_file the request is issued
\* with no body and the Payload Loader is not run; for a POST step with
\* payload_file whose payload_dir is missing from the store or is not a
\* string neither the Payload Loader nor the request is run, and the Result,
\* if one is returned, is ERROR with the description of the KeyError
\* ('payload_dir') or of os.path.join's TypeError; the Payload Loader runs
\* only for POST (in any letter case) with payload_file and a string
\* payload_dir in the store.
C7_PayloadOnlyForPostWithFile ==
    \A k \in Called :
        /\ calls[k].loader =>
             /\ IsPost(Api(k))
             /\ "payload_file" \in Api(k).keys
             /\ "payload_dir" \in DOMAIN calls[k].envBefore
             /\ calls[k].envBefore["payload_dir"].t = "str"
             /\ calls[k].sent /\ calls[k].payload # "None"
        /\ (IsPost(Api(k)) /\ "url" \in Api(k).keys /\ "payload_file" \notin Api(k).keys)
             => (calls[k].sent /\ calls[k].payload = "None" /\ ~calls[k].loader)
        /\ ( /\ IsPost(Api(k)) /\ "url" \in Api(k).keys
             /\ "payload_file" \in Api(k).keys
             /\ "payload_dir" \notin DOMAIN calls[k].envBefore )
             => /\ ~calls[k].sent /\ ~calls[k].loader
                /\ HasResult(k) =>
                     /\ results[k].Status = "ERROR"
                     /\ results[k].Response.error = "'payload_dir'"
        /\ ( /\ IsPost(Api(k)) /\ "url" \in Api(k).keys
             /\ "payload_file" \in Api(k).keys
             /\ "payload_dir" \in DOMAIN calls[k].envBefore
             /\ calls[k].envBefore["payload_dir"].t # "str" )
             => /\ ~calls[k].sent /\ ~calls[k].loader
                /\ HasResult(k) =>
                     /\ results[k].Status = "ERROR"
                     /\ results[k].Code = StrV("N/A")
                     /\ results[k].Response.error =
                            "join() argument must be str, bytes, or os.PathLike object, not 'int'"

C7_Witness ==
    \E k, j \in Called :
        /\ IsPost(Api(k)) /\ "payload_file" \notin Api(k).keys
        /\ calls[k].sent /\ calls[k].payload = "None"
        /\ IsPost(Api(j)) /\ "payload_file" \in Api(j).keys
        /\ "payload_dir" \notin DOMAIN calls[j].envBefore
        /\ HasResult(j) /\ results[j].Status = "ERROR"

\* C7: a POST step with payload_file against a store whose payload_dir is a
\* number ends as ERROR without a request being issued.
C7_NonStringDirReached ==
    \E i \in Called :
        /\ IsPost(Api(i)) /\ "payload_file" \in Api(i).keys
        /\ "payload_dir" \in DOMAIN calls[i].envBefore
        /\ calls[i].envBefore["payload_dir"].t = "int"
        /\ ~calls[i].sent /\ HasResult(i) /\ results[i].Status = "ERROR"

\* C8: no failure inside a step leaves fetch_api_data: for every step
\* definition and every answer of the HTTP call a Result is returned and the
\* run goes on with the next step.
C8_NoFailureLeavesTheStep ==
    /\ \A k \in Called : ~calls[k].raised /\ HasResult(k)
    /\ ~AbortedInLoop

\* C9 as stated: the value step j uses for {{lat}} and {{lon}} is the one
\* most recently written by the set_env of a step before j that did not
\* error, the environment file's value if there is none.
C9_ValueFromStepsThatDidNotError ==
    \A j \in Called :
        calls[j].resolved =>
            \A p \in DOMAIN Template(j) :
                calls[j].params[p] = Substitute(Template(j)[p], ChainedEnv(j, NotErrored))

\* C9 as amended: the value step j uses for {{lat}} and {{lon}} is the one
\* most recently written by the set_env of a step before j, whether or not
\* that step ended as ERROR, the environment file's value if no earlier step
\* wrote the variable; step j's own writes and those of later steps never
\* affect step j's request.
C9_ValueFromEarlierSteps ==
    \A j \in Called :
        calls[j].resolved =>
            \A p \in DOMAIN Template(j) :
                calls[j].params[p] = Substitute(Template(j)[p], ChainedEnv(j, Called))

C9_Witness ==
    \E j \in Called :
        /\ j > 1
        /\ calls[j].resolved
        /\ Writers(j, "lat", Called) # {}
        /\ "p" \in DOMAIN Template(j)
        /\ Template(j)["p"] = "{{lat}},{{lon}}"
        /\ calls[j].params["p"] = "48,2"

\* C10 as stated: a step whose Result is ERROR leaves the Environment Store
\* exactly as it was before the step, whatever the cause of the error.
C10_ErrorLeavesStoreUntouched ==
    \A k \in Called :
        (HasResult(k) /\ results[k].Status = "ERROR") =>
            calls[k].envAfter = calls[k].envBefore

\* C10 as amended: a step whose Result is ERROR leaves the Environment Store
\* as it was before the step, except when the error is raised by a set_env
\* rule whose path is not a string after earlier rules were applied to a JSON
\* object body: the writes of those earlier rules stay in the store.  The
\* store changes only in steps whose HTTP call returned a JSON object body.
C10_ErrorKeepsEarlierRuleWrites ==
    \A k \in Called :
        /\ (HasResult(k) /\ results[k].Status = "ERROR") =>
              IF Answered(k) /\ calls[k].response.body.kind = "object"
              THEN calls[k].envAfter =
                       Overlay(calls[k].envBefore, Rules(k), FirstBad(Rules(k)) - 1,
                               calls[k].response.body)
              ELSE calls[k].envAfter = calls[k].envBefore
        /\ calls[k].envAfter # calls[k].envBefore =>
              (Answered(k) /\ calls[k].response.body.kind = "object")

C10_Witness ==
    \E k \in Called :
        /\ HasResult(k) /\ results[k].Status = "ERROR"
        /\ calls[k].envAfter # calls[k].envBefore
        /\ FirstBad(Rules(k)) = 2

====
